---- MODULE Spec2Model ----
(***************************************************************************)
(* A model of src/nodeproj/src/blessed.js: the Blessed object-composition  *)
(* helpers (unBindAt, bless, extend, mixin, assertImplements, interpolate) *)
(* over a heap of JavaScript objects.                                      *)
(*                                                                         *)
(* JavaScript values are tagged tuples, objects live in a heap (a sequence *)
(* of records indexed by object identity), property lookup walks the       *)
(* prototype chain, for-in enumerates own enumerable keys in insertion     *)
(* order and then the prototype's unshadowed ones.                         *)
(*                                                                         *)
(* Object.prototype and Function.prototype are the end of every chain      *)
(* (proto = 0): they hold no enumerable property, and their `constructor`  *)
(* is none of the modelled constructors, so a lookup that reaches them     *)
(* yields undefined here.  hasOwnProperty always resolves to               *)
(* Object.prototype.hasOwnProperty.                                        *)
(***************************************************************************)
EXTENDS Integers, Sequences, FiniteSets, TLC

VARIABLES heap, call, prev, steps

vars == <<heap, call, prev, steps>>

(***************************************************************************)
(* JavaScript values                                                       *)
(***************************************************************************)
Undef == <<"undefined">>
Null == <<"null">>
NaN == <<"NaN">>
Num(n) == <<"number", n>>
\* A string that names a property.
Str(s) == <<"string", s>>
\* A string as the sequence of its tokens (placeholders, words), for
\* interpolate.
Text(tokens) == <<"text", tokens>>
Bool(b) == <<"boolean", b>>
Ref(i) == <<"ref", i>>
\* The closure unBindAt returns (blessed.js:77-81): it captures object, func
\* and thisArgNumber.
Dlg(object, func, n) == <<"delegate", object, func, n>>

\* a === b: identity for objects, value equality for primitives (NaN is
\* equal to nothing).
StrictEq(a, b) == a[1] = b[1] /\ a[1] # "NaN" /\ a = b

IsRef(v) == v[1] = "ref"
IsDlg(v) == v[1] = "delegate"
IsNum(v) == v[1] = "number"

\* v == null
EqNull(v) == v[1] \in {"undefined", "null"}

\* ToBoolean(v)
Truthy(v) ==
  CASE v[1] \in {"undefined", "null", "NaN"} -> FALSE
    [] v[1] = "number" -> v[2] # 0
    [] v[1] = "string" -> v[2] # ""
    [] v[1] = "text" -> v[2] # <<>>
    [] v[1] = "boolean" -> v[2]
    [] OTHER -> TRUE

\* isNaN(v), for the values thisArgNumber takes here: objects and functions
\* convert to NaN.
IsNaN(v) == v[1] \in {"NaN", "undefined", "ref", "delegate", "string"}

(***************************************************************************)
(* The heap                                                                *)
(***************************************************************************)
PropKeys == {"a", "b", "f", "g", "m", "z",
             "prototype", "constructor", "parent", "_applyLength"}

NoVals == [k \in PropKeys |-> Undef]

\* kind: typeof; proto: [[Prototype]] (0: Object.prototype/Function.prototype);
\* keys: the own property names in insertion order; val: their values;
\* hidden: the own names that are not enumerable; len: a function's length.
Obj(proto, keys, val, hidden) ==
  [kind |-> "object", proto |-> proto, keys |-> keys, val |-> val,
   hidden |-> hidden, len |-> 0]

Fn(len, keys, val, hidden) ==
  [kind |-> "function", proto |-> 0, keys |-> keys, val |-> val,
   hidden |-> hidden, len |-> len]

Range(s) == {s[i] : i \in 1..Len(s)}

HasOwn(h, o, k) == k \in Range(h[o].keys)

RECURSIVE Get(_, _, _)
\* o[k] for an object o: the own value, else the prototype's.
Get(h, o, k) ==
  IF HasOwn(h, o, k) THEN h[o].val[k]
  ELSE IF h[o].proto = 0 THEN Undef
  ELSE Get(h, h[o].proto, k)

\* v[k] for any value: a delegate is a function without modelled properties.
GetV(h, v, k) == IF IsRef(v) THEN Get(h, v[2], k) ELSE Undef

TypeOf(h, v) ==
  CASE IsRef(v) -> h[v[2]].kind
    [] IsDlg(v) -> "function"
    [] v[1] = "null" -> "object"
    [] v[1] = "NaN" -> "number"
    [] OTHER -> v[1]

\* o[k] = v for an ordinary object: updates the own property or creates an
\* enumerable one at the end of the insertion order.
Put(h, o, k, v) ==
  IF HasOwn(h, o, k)
  THEN [h EXCEPT ![o].val[k] = v]
  ELSE [h EXCEPT ![o].keys = Append(@, k), ![o].val[k] = v]

RECURSIVE ForInFrom(_, _, _)
\* for (k in o): own enumerable names in insertion order, then the
\* prototype's, each name once; an own name, enumerable or not, shadows the
\* same name further up.
ForInFrom(h, o, shadowed) ==
  LET own == h[o].keys
      Visible(k) == k \notin shadowed /\ k \notin h[o].hidden
      here == SelectSeq(own, Visible)
  IN IF h[o].proto = 0 THEN here
     ELSE here \o ForInFrom(h, h[o].proto, shadowed \cup Range(own))

ForIn(h, v) == IF IsRef(v) THEN ForInFrom(h, v[2], {}) ELSE <<>>

(***************************************************************************)
(* Errors: the ERROR_MESSAGES key, the function and parameter (or property)*)
(* interpolated into the message, and the value shown.                     *)
(***************************************************************************)
Err(kind, fn, what, shown) == <<kind, fn, what, shown>>
NoErr == <<"none", "", "", Undef>>

Ok(h, ret) == [heap |-> h, err |-> NoErr, ret |-> ret]
Throw(h, e) == [heap |-> h, err |-> e, ret |-> Undef]

\* blessed.js:34-39
objOrPrototype(h, variant) ==
  IF TypeOf(h, variant) = "function" /\ ~EqNull(GetV(h, variant, "prototype"))
  THEN GetV(h, variant, "prototype")
  ELSE variant

(***************************************************************************)
(* unBindAt                                                                *)
(***************************************************************************)
\* The identity of the LAST_ARG marker object (blessed.js:49).
LAST_ARG_ID == 1
LAST_ARG == Ref(LAST_ARG_ID)

\* func.length: a delegate declares no parameters (blessed.js:77).
FuncLength(h, func) == IF IsRef(func) THEN h[func[2]].len ELSE 0

\* x - 1
MinusOne(x) == IF IsNum(x) THEN Num(x[2] - 1) ELSE NaN

\* lastArgIndex without the - 1: the arity itself taken as the position.
lastArgIndexNoDecrement(h, func) ==
  LET al == GetV(h, func, "_applyLength")
  IN IF Truthy(al) THEN al ELSE Num(FuncLength(h, func))

\* (func["_applyLength"] || func.length) - 1    (blessed.js:73)
lastArgIndex(h, func) ==
  LET al == GetV(h, func, "_applyLength")
  IN MinusOne(IF Truthy(al) THEN al ELSE Num(FuncLength(h, func)))

\* blessed.js:67-82.  Returns the delegate, or the error thrown.
unBindAt(h, object, func, thisArgNumber) ==
  LET named == IF func[1] = "string" THEN GetV(h, object, func[2]) ELSE Undef
      f1 == IF func[1] = "string" /\ TypeOf(h, named) = "function"
            THEN named ELSE func
      n1 == IF EqNull(thisArgNumber) THEN Num(0) ELSE thisArgNumber
      n2 == IF StrictEq(n1, LAST_ARG) THEN lastArgIndex(h, f1) ELSE n1
  IN CASE EqNull(object) -> Throw(h, Err("undefined", "unBindAt", "object", Undef))
       [] ~EqNull(object) /\ EqNull(func) ->
            Throw(h, Err("undefined", "unBindAt", "func", Undef))
       [] ~EqNull(object) /\ ~EqNull(func) /\ TypeOf(h, f1) # "function" ->
            Throw(h, Err("notFunc", "unBindAt", "func", f1))
       [] OTHER ->
            IF IsNaN(n2)
            THEN Throw(h, Err("notNumber", "unBindAt", "thisArgNumber", n2))
            ELSE IF n2[2] < 0
            THEN Throw(h, Err("negative", "unBindAt", "thisArgNumber", n2))
            ELSE Ok(h, Dlg(object, f1, n2))

Min(a, b) == IF a < b THEN a ELSE b
Max(a, b) == IF a > b THEN a ELSE b

\* splice with a delete count of 1: the receiver replaces an argument.
spliceOverwrite(args, start, item) ==
  LET len == Len(args)
      at == IF start < 0 THEN Max(len + start, 0) ELSE Min(start, len)
  IN SubSeq(args, 1, at) \o <<item>> \o SubSeq(args, at + 2, len)

\* args.splice(start, 0, item) (blessed.js:79): Array.prototype.splice clamps
\* start to [0, length] and deletes nothing.
splice(args, start, item) ==
  LET len == Len(args)
      at == IF start < 0 THEN Max(len + start, 0) ELSE Min(start, len)
  IN SubSeq(args, 1, at) \o <<item>> \o SubSeq(args, at + 1, len)

\* What calling an ordinary function yields: the function is uninterpreted,
\* so its result is the call it received.
Called(func, context, args) == <<"call", func, context, args>>

RECURSIVE apply(_, _, _)
\* func.apply(context, args) (blessed.js:80); a delegate as func runs its own
\* body (blessed.js:77-81) with `this` = context.
apply(func, context, args) ==
  IF IsDlg(func)
  THEN apply(func[3], func[2], splice(args, func[4][2], context))
  ELSE Called(func, context, args)

\* delegate.apply(receiver, args): the body of the returned closure.
invoke(delegate, receiver, args) == apply(delegate, receiver, args)

(***************************************************************************)
(* The call last made (its operation, arguments, the heap before it and    *)
(* its outcome) and a summary of the one before it.                        *)
(***************************************************************************)
NoCall == [op |-> "none", args |-> <<>>, pre |-> <<>>, err |-> NoErr, ret |-> Undef]
NoPrev == [op |-> "none", args |-> <<>>, err |-> NoErr]

Summary(c) == [op |-> c.op, args |-> c.args, err |-> c.err]

SeqsUpTo(Elems, n) == UNION {[1..k -> Elems] : k \in 0..n}

(***************************************************************************)
(* bless                                                                   *)
(***************************************************************************)
\* v[k] = x, for v an object.
PutV(h, v, k, x) == Put(h, v[2], k, x)

RECURSIVE blessFromOwnOnly(_, _, _, _, _, _)
\* blessFrom with the presence test made on own properties only
\* (hasOwnProperty instead of == null).
blessFromOwnOnly(h, blessee, benediction, inWhichArg, props, i) ==
  IF i > Len(props) THEN Ok(h, Undef)
  ELSE
    LET property == props[i]
        value == GetV(h, benediction, property)
    IN IF ~HasOwn(h, blessee[2], property)
       THEN IF TypeOf(h, value) = "function"
            THEN LET d == unBindAt(h, benediction, Str(property), inWhichArg)
                 IN IF d.err # NoErr THEN Throw(h, d.err)
                    ELSE blessFromOwnOnly(PutV(h, blessee, property, d.ret), blessee,
                                          benediction, inWhichArg, props, i + 1)
            ELSE blessFromOwnOnly(PutV(h, blessee, property, value), blessee,
                                  benediction, inWhichArg, props, i + 1)
       ELSE blessFromOwnOnly(h, blessee, benediction, inWhichArg, props, i + 1)

RECURSIVE blessFrom(_, _, _, _, _, _)
\* The loop of blessed.js:122-137 from the i-th enumerated property on.
blessFrom(h, blessee, benediction, inWhichArg, props, i) ==
  IF i > Len(props) THEN Ok(h, Undef)
  ELSE
    LET property == props[i]
        value == GetV(h, benediction, property)
    IN IF EqNull(GetV(h, blessee, property))
       THEN IF TypeOf(h, value) = "function"
            THEN LET d == unBindAt(h, benediction, Str(property), inWhichArg)
                 IN IF d.err # NoErr THEN Throw(h, d.err)
                    ELSE blessFrom(PutV(h, blessee, property, d.ret), blessee,
                                   benediction, inWhichArg, props, i + 1)
            ELSE blessFrom(PutV(h, blessee, property, value), blessee,
                           benediction, inWhichArg, props, i + 1)
       ELSE blessFrom(h, blessee, benediction, inWhichArg, props, i + 1)

\* blessed.js:116-138
bless(h, blessee, benediction, inWhichArg) ==
  IF EqNull(benediction)
  THEN Throw(h, Err("undefined", "bless", "benediction", Undef))
  ELSE IF EqNull(blessee)
  THEN Throw(h, Err("undefined", "bless", "blessee", Undef))
  ELSE LET to == objOrPrototype(h, blessee)
           from == objOrPrototype(h, benediction)
       IN blessFrom(h, to, from, inWhichArg, ForIn(h, from), 1)

(***************************************************************************)
(* extend                                                                  *)
(***************************************************************************)
\* The first enumerated key of the prototype that is its own (the loop of
\* blessed.js:168-172), "" when there is none.
FirstOwnKey(h, prototype) ==
  LET props == ForIn(h, prototype)
      own == SelectSeq(props, LAMBDA k : HasOwn(h, prototype[2], k))
  IN IF own = <<>> THEN "" ELSE own[1]

\* new _Clazz(), with _Clazz.prototype = prototype (blessed.js:180-182): a
\* fresh object without own properties; a prototype that is no object gives
\* it Object.prototype.
NewClazz(h, prototype) ==
  Append(h, Obj(IF IsRef(prototype) THEN prototype[2] ELSE 0, <<>>, NoVals, {}))

\* link that re-parents the existing prototype object instead of making a
\* fresh one.
linkInPlace(h, subclass, superclass) ==
  LET h1 == PutV(h, subclass, "parent", superclass)
      old == GetV(h1, subclass, "prototype")
      up == GetV(h1, superclass, "prototype")
  IN [h1 EXCEPT ![old[2]].proto = IF IsRef(up) THEN up[2] ELSE 0]

\* blessed.js:177-182
link(h, subclass, superclass) ==
  LET h1 == PutV(h, subclass, "parent", superclass)
      h2 == NewClazz(h1, GetV(h1, superclass, "prototype"))
  IN PutV(h2, subclass, "prototype", Ref(Len(h2)))

\* extend with the parent back-reference recorded before the
\* already-extended check.
extendParentFirst(h, subclass, superclass) ==
  IF EqNull(subclass)
  THEN Throw(h, Err("undefined", "extend", "subclass", Undef))
  ELSE IF EqNull(superclass)
  THEN Throw(h, Err("undefined", "extend", "superclass", Undef))
  ELSE
    LET h0 == IF IsRef(subclass) THEN PutV(h, subclass, "parent", superclass) ELSE h
        prototype == GetV(h0, subclass, "prototype")
    IN IF Truthy(prototype)
          /\ StrictEq(GetV(h0, prototype, "constructor"), subclass)
       THEN IF FirstOwnKey(h0, prototype) # ""
            THEN Throw(h0, Err("extendedProp", "extend", FirstOwnKey(h0, prototype),
                               Undef))
            ELSE Ok(link(h0, subclass, superclass), Undef)
       ELSE Throw(h0, Err("alreadyExtended", "extend", "", Undef))

\* blessed.js:161-183
extend(h, subclass, superclass) ==
  IF EqNull(subclass)
  THEN Throw(h, Err("undefined", "extend", "subclass", Undef))
  ELSE IF EqNull(superclass)
  THEN Throw(h, Err("undefined", "extend", "superclass", Undef))
  ELSE
    LET prototype == GetV(h, subclass, "prototype")
    IN IF Truthy(prototype)
          /\ StrictEq(GetV(h, prototype, "constructor"), subclass)
       THEN IF FirstOwnKey(h, prototype) # ""
            THEN Throw(h, Err("extendedProp", "extend", FirstOwnKey(h, prototype),
                              Undef))
            ELSE Ok(link(h, subclass, superclass), Undef)
       ELSE Throw(h, Err("alreadyExtended", "extend", "", Undef))

(***************************************************************************)
(* mixin                                                                   *)
(***************************************************************************)
RECURSIVE mixinPropsUnlessPresent(_, _, _, _, _)
\* mixinProps with the test of bless (child[property] == null) in place of
\* hasOwnProperty.
mixinPropsUnlessPresent(h, child, ingredient, props, i) ==
  IF i > Len(props) THEN h
  ELSE IF EqNull(GetV(h, child, props[i]))
  THEN mixinPropsUnlessPresent(
         PutV(h, child, props[i], GetV(h, ingredient, props[i])),
         child, ingredient, props, i + 1)
  ELSE mixinPropsUnlessPresent(h, child, ingredient, props, i + 1)

RECURSIVE mixinProps(_, _, _, _, _)
\* The inner loop of blessed.js:217-221 from the i-th enumerated property on.
mixinProps(h, child, ingredient, props, i) ==
  IF i > Len(props) THEN h
  ELSE IF ~HasOwn(h, child[2], props[i])
  THEN mixinProps(PutV(h, child, props[i], GetV(h, ingredient, props[i])),
                  child, ingredient, props, i + 1)
  ELSE mixinProps(h, child, ingredient, props, i + 1)

RECURSIVE mixinFrom(_, _, _, _)
\* The outer loop of blessed.js:215-222 from the i-th mix on.
mixinFrom(h, child, mixes, i) ==
  IF i > Len(mixes) THEN h
  ELSE LET ingredient == objOrPrototype(h, mixes[i])
       IN mixinFrom(mixinProps(h, child, ingredient, ForIn(h, ingredient), 1),
                    child, mixes, i + 1)

\* return child;    (blessed.js:223, after the reassignment of line 213)
mixinResult(h, child) == objOrPrototype(h, child)

\* blessed.js:209-224
mixin(h, child, mixes) ==
  IF EqNull(child)
  THEN Throw(h, Err("undefined", "mixin", "child", Undef))
  ELSE Ok(mixinFrom(h, objOrPrototype(h, child), mixes, 1), mixinResult(h, child))

(***************************************************************************)
(* assertImplements                                                        *)
(***************************************************************************)
RECURSIVE assertFromUndefinedOnly(_, _, _, _)
\* assertFrom with child[property] === undefined as the test, so that a null
\* member passes.
assertFromUndefinedOnly(h, child, props, i) ==
  IF i > Len(props) THEN Ok(h, Undef)
  ELSE IF GetV(h, child, props[i])[1] = "undefined"
  THEN Throw(h, Err("unimplemented", "assertImplements", props[i], Undef))
  ELSE assertFromUndefinedOnly(h, child, props, i + 1)

RECURSIVE assertFrom(_, _, _, _)
\* The loop of blessed.js:242-246 from the i-th enumerated property on.
assertFrom(h, child, props, i) ==
  IF i > Len(props) THEN Ok(h, Undef)
  ELSE IF EqNull(GetV(h, child, props[i]))
  THEN Throw(h, Err("unimplemented", "assertImplements", props[i], Undef))
  ELSE assertFrom(h, child, props, i + 1)

\* blessed.js:237-247
assertImplements(h, child, interf) ==
  IF EqNull(child)
  THEN Throw(h, Err("undefined", "assertImplements", "child", Undef))
  ELSE IF EqNull(interf)
  THEN Throw(h, Err("undefined", "assertImplements", "interf", Undef))
  ELSE assertFrom(h, child, ForIn(h, objOrPrototype(h, interf)), 1)

(***************************************************************************)
(* Specification of the composition helpers over a heap                    *)
(***************************************************************************)
MaxSteps == 2

\* Object identities of the initial heap.
CtorA == Ref(2)
CtorB == Ref(4)
FnF2 == Ref(6)
FnG0 == Ref(7)
InstI == Ref(8)
ObjY == Ref(9)
ObjX == Ref(10)
ObjS == Ref(11)
ObjT == Ref(12)

Vals(pairs) ==
  [k \in PropKeys |->
     IF \E i \in 1..Len(pairs) : pairs[i][1] = k
     THEN (CHOOSE q \in Range(pairs) : q[1] = k)[2]
     ELSE Undef]

Keys(pairs) == [i \in 1..Len(pairs) |-> pairs[i][1]]

\* function A() {}: a constructor with its fresh prototype object, whose
\* `constructor` is not enumerable.
Ctor(prototype) ==
  Fn(0, <<"prototype">>, [NoVals EXCEPT !["prototype"] = prototype], {"prototype"})

Proto(constructor, pairs) ==
  LET all == <<<<"constructor", constructor>>>> \o pairs
  IN Obj(0, Keys(all), Vals(all), {"constructor"})

Plain(proto, pairs) == Obj(proto, Keys(pairs), Vals(pairs), {})

\* LAST_ARG; constructors A and B (whose prototype has a method m);
\* functions F2(p, q) and G0(); I = new A() with I.a = 1;
\* Y = {a: 2, f: F2, z: null}; X = Object.create(Y) with X.b = 1;
\* S = {z: 9, a: 7, b: 8, g: G0}; T = Object.create(S) with T.a = 5, T.m = F2.
BaseHeap ==
  << Plain(0, <<>>),
     Ctor(Ref(3)), Proto(CtorA, <<>>),
     Ctor(Ref(5)), Proto(CtorB, << <<"m", FnF2>> >>),
     Fn(2, <<>>, NoVals, {}),
     Fn(0, <<>>, NoVals, {}),
     Plain(3, << <<"a", Num(1)>> >>),
     Plain(0, << <<"a", Num(2)>>, <<"f", FnF2>>, <<"z", Null>> >>),
     Plain(9, << <<"b", Num(1)>> >>),
     Plain(0, << <<"z", Num(9)>>, <<"a", Num(7)>>, <<"b", Num(8)>>, <<"g", FnG0>> >>),
     Plain(11, << <<"a", Num(5)>>, <<"m", FnF2>> >>) >>

Blessees == {ObjX, ObjY, CtorA}
Benedictions == {ObjT, ObjX, CtorB}
Positions == {Undef, Num(1), LAST_ARG, NaN}
BlessArgs ==
  (Blessees \X Benedictions \X Positions)
    \cup {<<Null, ObjT, Undef>>, <<ObjX, Undef, Undef>>, <<Undef, Null, Num(1)>>}

Subclasses == {CtorA, CtorB, ObjX}
Superclasses == {CtorA, CtorB, ObjY}
ExtendArgs ==
  (Subclasses \X Superclasses)
    \cup {<<Null, CtorB>>, <<CtorA, Undef>>, <<Undef, Null>>}

Children == {ObjX, CtorA}
Mixes == {<<ObjS>>, <<ObjS, ObjT>>, <<ObjT, ObjS>>, <<ObjX, CtorB>>, <<Null, ObjT>>}
MixinArgs == (Children \X Mixes) \cup {<<Undef, <<ObjS>>>>, <<Null, <<>>>>}

Implementors == {ObjX, InstI, CtorA}
Interfaces == {ObjT, ObjY, CtorB, InstI}
AssertArgs ==
  (Implementors \X Interfaces)
    \cup {<<Null, ObjT>>, <<ObjX, Undef>>, <<Undef, Null>>}

Init ==
  /\ heap = BaseHeap
  /\ call = NoCall
  /\ prev = NoPrev
  /\ steps = 0

Record(op, args, r) ==
  /\ heap' = r.heap
  /\ call' = [op |-> op, args |-> args, pre |-> heap, err |-> r.err, ret |-> r.ret]
  /\ prev' = Summary(call)
  /\ steps' = steps + 1

BlessCall ==
  /\ steps < MaxSteps
  /\ \E args \in BlessArgs :
       Record("bless", args, bless(heap, args[1], args[2], args[3]))

ExtendCall ==
  /\ steps < MaxSteps
  /\ \E args \in ExtendArgs :
       Record("extend", args, extend(heap, args[1], args[2]))

MixinCall ==
  /\ steps < MaxSteps
  /\ \E args \in MixinArgs :
       Record("mixin", args, mixin(heap, args[1], args[2]))

AssertImplementsCall ==
  /\ steps < MaxSteps
  /\ \E args \in AssertArgs :
       Record("assertImplements", args, assertImplements(heap, args[1], args[2]))

Next == BlessCall \/ ExtendCall \/ MixinCall \/ AssertImplementsCall

Spec == Init /\ [][Next]_vars

(***************************************************************************)
(* Claims about bless, mixin, assertImplements and extend, checked under   *)
(* Spec                                                                    *)
(***************************************************************************)
Succeeded(c) == c.err = NoErr
Failed(c) == c.err # NoErr

\* The index of the first element of props that satisfies Test, 0 if none.
FirstWhere(props, Test(_)) ==
  IF \E i \in 1..Len(props) : Test(props[i])
  THEN CHOOSE i \in 1..Len(props) :
         Test(props[i]) /\ \A j \in 1..(i - 1) : ~Test(props[j])
  ELSE 0

\* What bless installs for property p of src: a delegate for a function, the
\* value itself otherwise.
Blessing(h, src, p, inWhichArg) ==
  IF TypeOf(h, GetV(h, src, p)) = "function"
  THEN unBindAt(h, src, Str(p), inWhichArg).ret
  ELSE GetV(h, src, p)

\* C2: bless(dest, src) never overwrites a property already present
\* (non-null) on dest, own or inherited, and after the call every other
\* enumerable property p of src (own or inherited) is present on dest: as the
\* delegate unBindAt(src, p, inWhichArg) when src[p] is a function, as the
\* identical value otherwise.  (dest and src are the objects the arguments
\* resolve to: a constructor stands for its prototype.)
C2_BlessKeepsPresentInstallsMissing ==
  (call.op = "bless" /\ Succeeded(call)) =>
    LET pre == call.pre
        dest == objOrPrototype(pre, call.args[1])
        src == objOrPrototype(pre, call.args[2])
    IN \A p \in PropKeys :
         /\ ~EqNull(GetV(pre, dest, p)) =>
              /\ GetV(heap, dest, p) = GetV(pre, dest, p)
              /\ HasOwn(heap, dest[2], p) <=> HasOwn(pre, dest[2], p)
         /\ (EqNull(GetV(pre, dest, p)) /\ p \in Range(ForIn(pre, src))) =>
              GetV(heap, dest, p) = Blessing(pre, src, p, call.args[3])

\* C2's case: bless(X, T, 1) where X inherits a non-null a that T also has,
\* inherits a null z, and lacks the function m and the inherited function g.
C2_Witness ==
  /\ call.op = "bless"
  /\ Succeeded(call)
  /\ call.args = <<ObjX, ObjT, Num(1)>>
  /\ call.pre = BaseHeap
  /\ ~HasOwn(heap, ObjX[2], "a")
  /\ GetV(heap, ObjX, "a") = Num(2)
  /\ GetV(heap, ObjX, "z") = Num(9)
  /\ GetV(heap, ObjX, "m") = Dlg(ObjT, FnF2, Num(1))
  /\ GetV(heap, ObjX, "g") = Dlg(ObjT, FnG0, Num(1))

\* C3: for mixin(child, s1, ..., sN) and every key p, a property child owned
\* before the call keeps its value; otherwise child[p] is afterwards the
\* value of p in the lowest-numbered source that has p as an enumerable (own
\* or inherited) property, also when child inherited p before.
C3_MixinFirstSourceWins ==
  (call.op = "mixin" /\ Succeeded(call)) =>
    LET pre == call.pre
        child == objOrPrototype(pre, call.args[1])
        mixes == call.args[2]
        Source(i) == objOrPrototype(pre, mixes[i])
    IN \A p \in PropKeys :
         IF HasOwn(pre, child[2], p)
         THEN /\ HasOwn(heap, child[2], p)
              /\ heap[child[2]].val[p] = pre[child[2]].val[p]
         ELSE LET having == {i \in 1..Len(mixes) : p \in Range(ForIn(pre, Source(i)))}
              IN having # {} =>
                   LET first == CHOOSE i \in having : \A j \in having : i <= j
                   IN /\ HasOwn(heap, child[2], p)
                      /\ GetV(heap, child, p) = GetV(pre, Source(first), p)

\* C3's case: mixin(X, S, T) where X owns b (S.b differs), inherits a (S.a
\* and T.a differ from it and from each other) and lacks m (only T has it).
C3_Witness ==
  /\ call.op = "mixin"
  /\ Succeeded(call)
  /\ call.args = <<ObjX, <<ObjS, ObjT>>>>
  /\ call.pre = BaseHeap
  /\ GetV(heap, ObjX, "b") = Num(1)
  /\ GetV(heap, ObjX, "a") = Num(7)
  /\ GetV(heap, ObjX, "m") = FnF2

\* C8: mixin(child, ...sources) returns the provided child object itself,
\* for a plain object and for a constructor function alike.
C8_MixinReturnsChild ==
  (call.op = "mixin" /\ Succeeded(call)) => call.ret = call.args[1]

\* C5: assertImplements(child, interf) with both arguments non-null fails
\* with UnimplementedMember naming the first enumerable property p of interf
\* (a constructor standing for its prototype) whose child[p] is null or
\* undefined, and completes without error or value when there is none.
C5_AssertImplementsNamesFirstMissing ==
  (call.op = "assertImplements" /\ ~EqNull(call.args[1]) /\ ~EqNull(call.args[2])) =>
    LET child == call.args[1]
        props == ForIn(heap, objOrPrototype(heap, call.args[2]))
        Missing(p) == EqNull(GetV(heap, child, p))
        first == FirstWhere(props, Missing)
    IN /\ heap = call.pre
       /\ IF first = 0
          THEN Succeeded(call) /\ call.ret = Undef
          ELSE call.err = Err("unimplemented", "assertImplements", props[first], Undef)

\* C5's case: after assertImplements(X, I) passed (X inherits a),
\* assertImplements(X, T) names m, the first of the missing m, z and g.
C5_Witness ==
  /\ prev.op = "assertImplements"
  /\ prev.args = <<ObjX, InstI>>
  /\ prev.err = NoErr
  /\ call.op = "assertImplements"
  /\ call.args = <<ObjX, ObjT>>
  /\ call.err = Err("unimplemented", "assertImplements", "m", Undef)
  /\ EqNull(GetV(heap, ObjX, "z"))
  /\ EqNull(GetV(heap, ObjX, "g"))

AlreadyExtended(c) == c.err[1] \in {"alreadyExtended", "extendedProp"}

\* C4: after a call extend(A, B) that succeeded, an immediately following
\* extend(A, C) fails with AlreadyExtended, and A's prototype link and parent
\* stay those the first call set.
C4_SecondExtendFails ==
  ( /\ call.op = "extend"
    /\ prev.op = "extend"
    /\ prev.err = NoErr
    /\ call.args[1] = prev.args[1]
    /\ ~EqNull(call.args[2]) ) =>
    /\ AlreadyExtended(call)
    /\ heap = call.pre

\* What C9 says of a call extend(subclass, superclass) that succeeded, but for
\* the superclass being left unchanged.
ExtendLinks(pre, post, subclass, superclass) ==
  LET old == GetV(pre, subclass, "prototype")
      new == GetV(post, subclass, "prototype")
  IN /\ GetV(post, subclass, "parent") = superclass
     /\ IsRef(new)
     /\ new[2] \notin 1..Len(pre)
     /\ post[new[2]].keys = <<>>
     /\ IsRef(GetV(pre, superclass, "prototype"))
     /\ post[new[2]].proto = GetV(pre, superclass, "prototype")[2]
     /\ post[old[2]] = pre[old[2]]
     /\ \A o \in 1..Len(pre) : pre[o].proto = old[2] => post[o] = pre[o]

SuperclassUnchanged(pre, post, superclass) ==
  LET prototype == GetV(pre, superclass, "prototype")
  IN /\ post[superclass[2]] = pre[superclass[2]]
     /\ IsRef(prototype) => post[prototype[2]] = pre[prototype[2]]

\* C9 as stated: a call extend(subclass, superclass) that succeeds leaves
\* subclass.parent equal to superclass and subclass's prototype a fresh object
\* without own properties whose prototype is superclass's prototype; the
\* instances made before keep the old prototype object; superclass and its
\* prototype are unchanged.
C9_ExtendEffect ==
  (call.op = "extend" /\ Succeeded(call)) =>
    /\ ExtendLinks(call.pre, heap, call.args[1], call.args[2])
    /\ SuperclassUnchanged(call.pre, heap, call.args[2])

\* C9, amended: the same, for a superclass that has a prototype object and is
\* not the subclass itself.
C9_ExtendEffectOtherSuperclass ==
  ( /\ call.op = "extend"
    /\ Succeeded(call)
    /\ call.args[2] # call.args[1]
    /\ IsRef(GetV(call.pre, call.args[2], "prototype")) ) =>
    /\ ExtendLinks(call.pre, heap, call.args[1], call.args[2])
    /\ SuperclassUnchanged(call.pre, heap, call.args[2])

\* C9's case: extend(A, B) succeeds while I, made by new A() before, exists.
C9_Witness ==
  /\ call.op = "extend"
  /\ Succeeded(call)
  /\ call.args = <<CtorA, CtorB>>
  /\ call.pre = BaseHeap
  /\ heap[InstI[2]].proto = 3
  /\ GetV(heap, CtorA, "prototype") = Ref(Len(BaseHeap) + 1)
  /\ heap[Len(BaseHeap) + 1].proto = 5
  /\ GetV(heap, InstI, "m") = Undef
  /\ GetV(heap, GetV(heap, CtorA, "prototype"), "m") = FnF2

\* The object a call of bless, extend or mixin mutates: the blessee or child
\* (a constructor standing for its prototype), or the subclass.
TargetOf(c) ==
  IF c.op = "extend" THEN c.args[1] ELSE objOrPrototype(c.pre, c.args[1])

TargetUntouched(c, post) ==
  IsRef(TargetOf(c)) => post[TargetOf(c)[2]] = c.pre[TargetOf(c)[2]]

\* C10 as stated: whenever a call to bless, extend or mixin raises an error,
\* the target passed in has exactly the properties and prototype link it had
\* before the call.
C10_FailedCallLeavesTarget ==
  (call.op \in {"bless", "extend", "mixin"} /\ Failed(call)) =>
    TargetUntouched(call, heap)

\* What a bless that failed inside unBindAt leaves behind: the properties
\* enumerated before the rejected one are installed, nothing else changed.
PartlyBlessed(c, post) ==
  LET pre == c.pre
      dest == objOrPrototype(pre, c.args[1])
      src == objOrPrototype(pre, c.args[2])
      props == ForIn(pre, src)
      Rejected(p) ==
        /\ EqNull(GetV(pre, dest, p))
        /\ TypeOf(pre, GetV(pre, src, p)) = "function"
        /\ unBindAt(pre, src, Str(p), c.args[3]).err # NoErr
      at == FirstWhere(props, Rejected)
      before == {props[i] : i \in 1..(at - 1)}
  IN /\ at # 0
     /\ c.err = unBindAt(pre, src, Str(props[at]), c.args[3]).err
     /\ post[dest[2]].proto = pre[dest[2]].proto
     /\ \A o \in 1..Len(pre) : o # dest[2] => post[o] = pre[o]
     /\ Len(post) = Len(pre)
     /\ \A p \in PropKeys :
          IF p \in before /\ EqNull(GetV(pre, dest, p))
          THEN GetV(post, dest, p) = Blessing(pre, src, p, c.args[3])
          ELSE /\ GetV(post, dest, p) = GetV(pre, dest, p)
               /\ HasOwn(post, dest[2], p) <=> HasOwn(pre, dest[2], p)

\* C10, amended: whenever extend or mixin raises an error, or bless rejects a
\* null or undefined argument, the heap is exactly as before the call; when
\* bless fails because unBindAt rejects inWhichArg for a function-valued
\* property, the blessee keeps its prototype link and every property it had,
\* and holds in addition the properties of benediction enumerated before the
\* rejected one.
C10_FailedCallLeavesTargetOrPartBlessed ==
  (call.op \in {"bless", "extend", "mixin"} /\ Failed(call)) =>
    IF call.op = "bless" /\ call.err[2] = "unBindAt"
    THEN PartlyBlessed(call, heap)
    ELSE heap = call.pre

\* C10's case: bless(X, T, LAST_ARG) installs m and z on X and then fails at
\* g, whose function declares no parameter.
C10_Witness ==
  /\ call.op = "bless"
  /\ call.args = <<ObjX, ObjT, LAST_ARG>>
  /\ call.pre = BaseHeap
  /\ call.err = Err("negative", "unBindAt", "thisArgNumber", Num(-1))
  /\ GetV(heap, ObjX, "m") = Dlg(ObjT, FnF2, Num(1))
  /\ GetV(heap, ObjX, "z") = Num(9)
  /\ GetV(heap, ObjX, "g") = Undef

(***************************************************************************)
(* Specification of unBindAt and its delegates                             *)
(***************************************************************************)
MaxArity == 3
MaxArgs == 2


\* Object 2 holds method f (object 3, with the drawn length and optional
\* _applyLength), a number a and a null z; object 4 is a receiver.
UnbindHeap(len, al) ==
  << Obj(0, <<>>, NoVals, {}),
     Obj(0, <<"f", "a", "z">>,
         [NoVals EXCEPT !["f"] = Ref(3), !["a"] = Num(1), !["z"] = Null], {}),
     IF al < 0
     THEN Fn(len, <<>>, NoVals, {})
     ELSE Fn(len, <<"_applyLength">>, [NoVals EXCEPT !["_applyLength"] = Num(al)], {}),
     Obj(0, <<>>, NoVals, {}) >>

UnbindObjects == {Ref(2), Null}
UnbindFuncs == {Str("f"), Ref(3), Str("a"), Str("g"), Str("z"), Undef}
UnbindPositions ==
  {Undef, Null, NaN, LAST_ARG, Ref(4)} \cup {Num(n) : n \in -1..MaxArity}
Receivers == {Ref(4), Ref(2), Undef}
ArgValues == {Num(7), Num(8)}


InitUnbind ==
  /\ \E len \in 0..MaxArity, al \in -1..MaxArity : heap = UnbindHeap(len, al)
  /\ call = NoCall
  /\ prev = NoPrev
  /\ steps = 0

UnBindAtCall ==
  /\ call.op = "none"
  /\ \E object \in UnbindObjects, func \in UnbindFuncs, n \in UnbindPositions :
       LET r == unBindAt(heap, object, func, n)
       IN call' = [op |-> "unBindAt", args |-> <<object, func, n>>, pre |-> heap,
                   err |-> r.err, ret |-> r.ret]
  /\ prev' = Summary(call)
  /\ steps' = steps + 1
  /\ UNCHANGED heap

InvokeCall ==
  /\ call.op = "unBindAt"
  /\ call.err = NoErr
  /\ \E receiver \in Receivers, args \in SeqsUpTo(ArgValues, MaxArgs) :
       call' = [op |-> "invoke", args |-> <<call.ret, receiver, args>>, pre |-> heap,
                err |-> NoErr, ret |-> invoke(call.ret, receiver, args)]
  /\ prev' = Summary(call)
  /\ steps' = steps + 1
  /\ UNCHANGED heap

NextUnbind == UnBindAtCall \/ InvokeCall

SpecUnbind == InitUnbind /\ [][NextUnbind]_vars

(***************************************************************************)
(* Claims about unBindAt, checked under SpecUnbind                         *)
(***************************************************************************)
\* A with R inserted at index n: the elements from index n on move right by
\* one, and an n past the end puts R after the last element.
InsertAt(A, n, R) ==
  LET m == IF n > Len(A) THEN Len(A) ELSE n
  IN [i \in 1..(Len(A) + 1) |->
        IF i <= m THEN A[i] ELSE IF i = m + 1 THEN R ELSE A[i - 1]]

\* The function a call unBindAt(object, func, n) names: func itself, or the
\* method of object it names.
NamedFunc(h, object, func) ==
  IF func[1] = "string" THEN GetV(h, object, func[2]) ELSE func

\* C1: for a non-null object, a function func (given directly or as the name
\* of a method of object) and a position n >= 0, calling the delegate
\* unBindAt(object, func, n) returned with receiver R and arguments A returns
\* the result of calling func with context object and A with R inserted at
\* index n (after the last argument when n exceeds their number).
C1_DelegateInsertsReceiver ==
  /\ (call.op = "unBindAt" /\ ~EqNull(call.args[1])
        /\ TypeOf(heap, NamedFunc(heap, call.args[1], call.args[2])) = "function"
        /\ IsNum(call.args[3]) /\ call.args[3][2] >= 0) =>
       Succeeded(call)
  /\ (call.op = "invoke" /\ prev.op = "unBindAt") =>
       LET object == prev.args[1]
           func == prev.args[2]
           n == prev.args[3]
           R == call.args[2]
           A == call.args[3]
       IN (IsNum(n) /\ n[2] >= 0) =>
            call.ret = Called(NamedFunc(heap, object, func), object, InsertAt(A, n[2], R))

\* C1's case: a delegate built from a method name at position 1 is called with
\* two arguments, so the second one moves right.
C1_Witness ==
  /\ call.op = "invoke"
  /\ prev.op = "unBindAt"
  /\ prev.args[2] = Str("f")
  /\ prev.args[3] = Num(1)
  /\ call.args[2] = Ref(4)
  /\ Len(call.args[3]) = 2
  /\ call.ret = Called(Ref(3), Ref(2), <<call.args[3][1], Ref(4), call.args[3][2]>>)

\* What unBindAt(object, name, LAST_ARG) and unBindAt(object, name, k - 1) are
\* compared on: the error raised, the delegate returned and, once the
\* delegate is called, what it forwards.
SameAsPosition(k) ==
  /\ (call.op = "unBindAt" /\ StrictEq(call.args[3], LAST_ARG)) =>
       LET other == unBindAt(heap, call.args[1], call.args[2], Num(k - 1))
       IN call.err = other.err /\ call.ret = other.ret
  /\ (call.op = "invoke" /\ prev.op = "unBindAt" /\ StrictEq(prev.args[3], LAST_ARG)) =>
       LET other == unBindAt(heap, prev.args[1], prev.args[2], Num(k - 1))
       IN /\ other.err = NoErr
          /\ call.ret = invoke(other.ret, call.args[2], call.args[3])

\* The call the state is about names a method of a non-null object.
NamesMethod(c) ==
  /\ c.op = "unBindAt"
  /\ c.args[2][1] = "string"
  /\ TypeOf(heap, NamedFunc(heap, c.args[1], c.args[2])) = "function"

LastArgCase == NamesMethod(call) \/ (call.op = "invoke" /\ NamesMethod(prev))

LastArgMethod ==
  IF call.op = "invoke"
  THEN NamedFunc(heap, prev.args[1], prev.args[2])
  ELSE NamedFunc(heap, call.args[1], call.args[2])

EffectiveArity(h, func) ==
  LET al == GetV(h, func, "_applyLength")
  IN IF IsNum(al) /\ al[2] # 0 THEN al[2] ELSE FuncLength(h, func)

Placeholder(i) ==
  CASE i = 0 -> "{0}" [] i = 1 -> "{1}" [] i = 2 -> "{2}" [] OTHER -> "{n}"

Digits == <<"0", "1", "2", "3", "4", "5", "6", "7", "8", "9">>

\* v.toString(), for a value that is not null or undefined (numbers 0..9).
ToStringTokens(v) ==
  CASE v[1] = "text" -> v[2]
    [] v[1] = "number" -> <<Digits[v[2] + 1]>>
    [] v[1] = "boolean" -> IF v[2] THEN <<"true">> ELSE <<"false">>
    [] OTHER -> <<"[object]">>

\* The replacement patterns String.prototype.replace expands in a replacement
\* string: $& is the matched text, $$ a dollar sign.
ExpandReplacement(replacement, matched) ==
  [i \in 1..Len(replacement) |->
     CASE replacement[i] = "$&" -> matched
       [] replacement[i] = "$$" -> "$"
       [] OTHER -> replacement[i]]

FirstIndexOf(str, pattern) ==
  IF \E i \in 1..Len(str) : str[i] = pattern
  THEN CHOOSE i \in 1..Len(str) :
         str[i] = pattern /\ \A j \in 1..(i - 1) : str[j] # pattern
  ELSE 0

\* str.replace(pattern, replacement) with a string pattern: only the first
\* occurrence is replaced (blessed.js:263).
replace(str, pattern, replacement) ==
  LET at == FirstIndexOf(str, pattern)
  IN IF at = 0 THEN str
     ELSE SubSeq(str, 1, at - 1) \o ExpandReplacement(replacement, pattern)
            \o SubSeq(str, at + 1, Len(str))

\* (arguments[i] || "").toString()    (blessed.js:263)
replacementFor(arg) == IF Truthy(arg) THEN ToStringTokens(arg) ELSE <<>>

RECURSIVE interpolateFrom(_, _, _)
\* The loop of blessed.js:262-264 from argument i on; args[i] is
\* arguments[i] of the call and replaces {i-1}.
interpolateFrom(str, args, i) ==
  IF i > Len(args) THEN str
  ELSE interpolateFrom(replace(str, Placeholder(i - 1), replacementFor(args[i])),
                       args, i + 1)

\* blessed.js:260-266
interpolate(str, args) ==
  IF EqNull(str) THEN Null ELSE Text(interpolateFrom(str[2], args, 1))

(***************************************************************************)
(* Specification of interpolate                                            *)
(***************************************************************************)
MaxLen == 3
MaxInterpArgs == 2

TemplateTokens == {"{0}", "{1}", "x"}
Templates == {Null} \cup {Text(t) : t \in SeqsUpTo(TemplateTokens, MaxLen)}
InterpArgValues ==
  {Undef, Null, Num(0), Num(7), Bool(FALSE), Text(<<"y">>), Text(<<"{1}">>),
   Text(<<"$&">>)}

InitInterp ==
  /\ heap = <<>>
  /\ \E str \in Templates, args \in SeqsUpTo(InterpArgValues, MaxInterpArgs) :
       call = [op |-> "none", args |-> <<str, args>>, pre |-> <<>>,
               err |-> NoErr, ret |-> Undef]
  /\ prev = NoPrev
  /\ steps = 0

InterpolateCall ==
  /\ call.op = "none"
  /\ call' = [call EXCEPT !.op = "interpolate",
                          !.ret = interpolate(call.args[1], call.args[2])]
  /\ prev' = Summary(call)
  /\ steps' = steps + 1
  /\ UNCHANGED heap

NextInterp == InterpolateCall

SpecInterp == InitInterp /\ [][NextInterp]_vars

(***************************************************************************)
(* Claims about interpolate, checked under SpecInterp                      *)
(***************************************************************************)
\* The stringified argument, the empty string for null and undefined.
Stringified(arg) == IF EqNull(arg) THEN <<>> ELSE ToStringTokens(arg)

\* str with the first occurrence of token replaced by the tokens of text,
\* every later occurrence left in place.
FirstReplaced(str, token, text) ==
  IF \E i \in 1..Len(str) : str[i] = token
  THEN LET at == CHOOSE i \in 1..Len(str) :
                   str[i] = token /\ \A j \in 1..(i - 1) : str[j] # token
       IN SubSeq(str, 1, at - 1) \o text \o SubSeq(str, at + 1, Len(str))
  ELSE str

RECURSIVE Substituted(_, _, _)
Substituted(str, args, i) ==
  IF i > Len(args) THEN str
  ELSE Substituted(FirstReplaced(str, Placeholder(i - 1), Stringified(args[i])),
                   args, i + 1)

\* C7: interpolate(template, a0, a1, ...) returns null for a null template;
\* otherwise, for each argument index i in increasing order, it replaces only
\* the first occurrence of {i} with the stringified ai, the empty string when
\* ai is null or undefined, and leaves later occurrences in place.
C7_InterpolateSubstitutes ==
  call.op = "interpolate" =>
    call.ret = IF EqNull(call.args[1]) THEN Null
               ELSE Text(Substituted(call.args[1][2], call.args[2], 1))

====
